---- MODULE Spec2Model ----
(***************************************************************************)
(* Order creation and OTP confirmation of the pharmacy backend             *)
(* (orders/models.py, orders/serializers.py, orders/otp_service.py,        *)
(* orders/views.py).  Money is counted in hundredths (Decimal with two     *)
(* decimal places, exact), time in minutes, a character string that the    *)
(* code inspects (an OTP code, an order number) is a sequence of character *)
(* codes: 0..9 are the digits, LETTER stands for any non-digit character.  *)
(***************************************************************************)
EXTENDS Integers, Sequences, FiniteSets, TLC

\* ---------------------------------------------------------------- bounds
\* The most orders placed, the last minute looked at, and the last minute at
\* which an order is placed.
MaxOrders == 2
MaxTime == 6
MaxCreateTime == 1

\* ------------------------------------------------------ program constants
OTP_LENGTH == 6
OTP_EXPIRY_MINUTES == 5
MinutesPerDay == 1440
OrderNumberWidth == 4

\* ------------------------------------------------------------ Python values
\* None / a value: a nullable column or an optional attribute.
None == <<>>
Some(x) == <<x>>
Val(v) == v[1]

\* A string-valued column or request key that is absent (None / NULL).
ABSENT == "~"
\* Python truthiness of a string-valued attribute: None and "" are falsy.
Truthy(s) == s /= ABSENT /\ s /= ""

LETTER == 10
isdigit(value) == Len(value) > 0 /\ \A i \in 1..Len(value) : value[i] \in 0..9

\* ------------------------------------------------------------ collaborators
Users == {"u1", "u2"}

\* Product rows: the columns validate_items reads.
Products ==
  { [id |-> 1, sku |-> "A",   name |-> "Aspirin",  selling_price |-> 10000,
     is_available |-> TRUE,  requires_prescription |-> FALSE],
    [id |-> 2, sku |-> "RX",  name |-> "Codeine",  selling_price |-> 2550,
     is_available |-> TRUE,  requires_prescription |-> TRUE],
    [id |-> 3, sku |-> "OUT", name |-> "Zinc",     selling_price |-> 999,
     is_available |-> FALSE, requires_prescription |-> FALSE] }

\* DeliveryOption rows.
DeliveryOptions ==
  { [id |-> 1, base_charge |-> 5000, is_active |-> TRUE],
    [id |-> 2, base_charge |-> 7000, is_active |-> FALSE] }

\* Address rows.
Addresses ==
  { [id |-> 1, user |-> "u1", contact_name |-> "Ann", contact_phone |-> "0301",
     address_line |-> "1 High St", city |-> "Lahore", pincode |-> "54000"],
    [id |-> 2, user |-> "u2", contact_name |-> "Bob", contact_phone |-> "0302",
     address_line |-> "2 Low St", city |-> "Karachi", pincode |-> ABSENT] }

\* -------------------------------------------------------------- enumerations
PENDING == "PENDING"
AWAITING_OTP_VERIFICATION == "AWAITING_OTP"
AWAITING_PRESCRIPTION == "AWAITING_RX"
PROCESSING == "PROCESSING"
CANCELLED == "CANCELLED"

NOT_REQUIRED == "NA"
PENDING_UPLOAD == "PENDING_UPLOAD"
PENDING_VERIFICATION == "PENDING_VERIFICATION"
VERIFIED == "VERIFIED"
REJECTED == "REJECTED"

VARIABLES
  now,          \* timezone.now(), in minutes
  orders,       \* the committed Order table: a sequence of rows, id = index
  order_items,  \* the committed OrderItem table: a sequence of rows
  last,         \* the response of the last request handled
  products,     \* the Product table: a set of rows
  delivery_options,  \* the DeliveryOption table: a set of rows
  inflight,     \* the requests handled concurrently: per worker, where its
                \* handler stands and what it holds in memory
  cart_items,   \* the CartItem table: a set of rows
  addresses     \* the Address table: a set of rows

vars == <<now, orders, order_items, last, products, delivery_options,
          inflight, cart_items, addresses>>

\* The tables and workers the order and catalogue operations leave alone.
others == <<inflight, cart_items, addresses>>

\* ------------------------------------------------------------- order numbers
DayOf(t) == t \div MinutesPerDay

RECURSIVE DigitsOf(_)
\* str(n) for n >= 0, as a sequence of digits.
DigitsOf(n) == IF n < 10 THEN <<n>> ELSE Append(DigitsOf(n \div 10), n % 10)

RECURSIVE ZeroPad(_, _)
ZeroPad(ds, width) == IF Len(ds) >= width THEN ds ELSE ZeroPad(<<0>> \o ds, width)

\* f"{next_seq:04d}"
Format04d(n) == ZeroPad(DigitsOf(n), OrderNumberWidth)

RECURSIVE ParseInt(_)
\* int(s) for a string of digits.
ParseInt(ds) == IF Len(ds) = 0 THEN 0
                ELSE 10 * ParseInt(SubSeq(ds, 1, Len(ds) - 1)) + ds[Len(ds)]

RECURSIVE StrLess(_, _)
\* a < b in the collation order of the strings (character by character, a
\* proper prefix first).
StrLess(a, b) ==
  IF Len(b) = 0 THEN FALSE
  ELSE IF Len(a) = 0 THEN TRUE
  ELSE IF a[1] /= b[1] THEN a[1] < b[1]
  ELSE StrLess(Tail(a), Tail(b))

\* An order number f"{today_str}-{next_seq:04d}": the date prefix (one value
\* per calendar day) and the characters after the dash.
OrderNumber(day, seq) == [date |-> day, tail |-> Format04d(seq)]

\* Order.objects.filter(created_at in today, order_number__startswith=today_str)
TodaysOrders(rows, t) ==
  { i \in 1..Len(rows) :
      /\ DayOf(rows[i].created_at) = DayOf(t)
      /\ rows[i].order_number /= None
      /\ Val(rows[i].order_number).date = DayOf(t) }

\* .order_by('-order_number').first(): the row with the greatest number, or None.
LastOrder(rows, t) ==
  LET today == TodaysOrders(rows, t) IN
  IF today = {} THEN None
  ELSE Some(CHOOSE i \in today :
         \A j \in today :
            ~StrLess(Val(rows[i].order_number).tail, Val(rows[j].order_number).tail))

NextSeq(rows, t) ==
  LET last_order == LastOrder(rows, t) IN
  IF last_order /= None
  THEN ParseInt(Val(rows[Val(last_order)].order_number).tail) + 1
  ELSE 1

\* ------------------------------------------------------------------- Order
\* self.pk of an instance whose primary key is unset.
NoPk == 0

\* Order(**kwargs): the field defaults of the model.  id takes its default
\* uuid.uuid4() and created_at its default timezone.now() in the constructor.
Order_init(kw, uuid, t) ==
  [ id |-> uuid,
    user |-> kw.user,
    order_number |-> None,
    shipping_name |-> kw.shipping_name,
    shipping_phone_number |-> kw.shipping_phone_number,
    shipping_address_line |-> kw.shipping_address_line,
    shipping_city |-> kw.shipping_city,
    shipping_pincode |-> kw.shipping_pincode,
    sub_total |-> kw.sub_total,
    delivery_charge_snapshot |-> kw.delivery_charge_snapshot,
    order_total |-> kw.order_total,
    status |-> kw.status,
    order_requires_prescription |-> kw.order_requires_prescription,
    prescription |-> ABSENT,
    prescription_status |-> kw.prescription_status,
    payment_method |-> kw.payment_method,
    payment_completed |-> FALSE,
    delivery_option |-> kw.delivery_option,
    tracking_number |-> ABSENT,
    otp_code |-> None,
    otp_expiry |-> None,
    is_otp_verified |-> FALSE,
    created_at |-> t ]

OrderFields == DOMAIN Order_init(
  [user |-> "u1", shipping_name |-> "", shipping_phone_number |-> "",
   shipping_address_line |-> "", shipping_city |-> "", shipping_pincode |-> "",
   sub_total |-> 0, delivery_charge_snapshot |-> 0, order_total |-> 0,
   status |-> PENDING, order_requires_prescription |-> FALSE,
   prescription_status |-> NOT_REQUIRED, payment_method |-> "COD",
   delivery_option |-> None], 1, 0)

\* is_otp_valid without its expiry test.
is_otp_valid_unexpiring(self, submitted_otp, t) ==
  IF self.otp_code = None \/ Val(self.otp_code) = <<>> \/ self.otp_expiry = None
    THEN FALSE
  ELSE IF submitted_otp = <<>> \/ Len(submitted_otp) /= Len(Val(self.otp_code))
    THEN FALSE
  ELSE Val(self.otp_code) = submitted_otp

\* is_otp_valid with the expiry test "now >= expiry".
is_otp_valid_strict(self, submitted_otp, t) ==
  IF self.otp_code = None \/ Val(self.otp_code) = <<>> \/ self.otp_expiry = None
    THEN FALSE
  ELSE IF submitted_otp = <<>> \/ Len(submitted_otp) /= Len(Val(self.otp_code))
    THEN FALSE
  ELSE IF t >= Val(self.otp_expiry) THEN FALSE
  ELSE Val(self.otp_code) = submitted_otp

\* Order.is_otp_valid(submitted_otp) at time t.
is_otp_valid(self, submitted_otp, t) ==
  IF self.otp_code = None \/ Val(self.otp_code) = <<>> \/ self.otp_expiry = None
    THEN FALSE
  ELSE IF submitted_otp = <<>> \/ Len(submitted_otp) /= Len(Val(self.otp_code))
    THEN FALSE
  ELSE IF t > Val(self.otp_expiry) THEN FALSE
  ELSE Val(self.otp_code) = submitted_otp

\* The guard of Order.save: "not self.order_number and not self.pk".
NeedsOrderNumber(self) == self.order_number = None /\ self.id = NoPk

\* The unique constraints of the Order table on an INSERT.
IntegrityError(rows, self) ==
  \E i \in 1..Len(rows) :
     \/ rows[i].id = self.id
     \/ self.order_number /= None /\ rows[i].order_number = self.order_number

\* The first half of Order.save: the order number is generated when the guard
\* holds.
Order_save_number(self, rows, t) ==
  IF NeedsOrderNumber(self)
  THEN [self EXCEPT !.order_number = Some(OrderNumber(DayOf(t), NextSeq(rows, t)))]
  ELSE self

\* super().save(update_fields=...): the UPDATE of the named columns, or, for
\* update_fields = {} (a save of the whole row), the UPDATE of the row or the
\* INSERT of a row that is not there.  The instance, the table after the write
\* and the exception raised ("" for none).
Model_save(self, rows, update_fields) ==
  IF update_fields /= {}
  THEN [ order |-> self, raised |-> "",
         rows |-> [ i \in 1..Len(rows) |->
                     IF rows[i].id = self.id
                     THEN [ f \in OrderFields |->
                              IF f \in update_fields THEN self[f] ELSE rows[i][f] ]
                     ELSE rows[i] ] ]
  ELSE IF \E i \in 1..Len(rows) : rows[i].id = self.id
  THEN [ order |-> self, raised |-> "",
         rows |-> [ i \in 1..Len(rows) |->
                     IF rows[i].id = self.id THEN self ELSE rows[i] ] ]
  ELSE IF IntegrityError(rows, self)
  THEN [ order |-> self, raised |-> "IntegrityError", rows |-> rows ]
  ELSE [ order |-> self, raised |-> "", rows |-> Append(rows, self) ]

\* Order.save(*args, **kwargs) at time t.
Order_save(self, rows, t, update_fields) ==
  Model_save(Order_save_number(self, rows, t), rows, update_fields)

\* ------------------------------------------------------------- OTP service
RECURSIVE generate_otp_number(_, _)
\* generate_otp as str(random.randint(0, 10 ** length - 1)): the number, whose
\* leading zeros are not printed.
generate_otp_number(draw, length) ==
  IF length = 0 THEN <<>>
  ELSE IF generate_otp_number(draw, length - 1) = <<>> /\ draw[length] = 0
    THEN <<>>
  ELSE generate_otp_number(draw, length - 1) \o DigitsOf(draw[length])

RECURSIVE generate_otp(_, _)
\* "".join([str(random.randint(0, 9)) for _ in range(length)]); draw is the
\* sequence of integers the random source returns.
generate_otp(draw, length) ==
  IF length = 0 THEN <<>>
  ELSE generate_otp(draw, length - 1) \o DigitsOf(draw[length])

\* send_order_otp whose save names only the code and the status.
send_order_otp_try_partial(o, rows, t, save_error) ==
  IF save_error
  THEN [ sent |-> FALSE, order |-> o, rows |-> rows ]
  ELSE [ sent |-> TRUE, order |-> o,
         rows |-> Order_save(o, rows, t, {"otp_code", "status"}).rows ]

\* The try block of send_order_otp once the fields are set on the instance o:
\* order.save(update_fields=[...]) and the (simulated) gateway call.
\* save_error: order.save raises, which the function's except clause catches.
send_order_otp_try(o, rows, t, save_error) ==
  IF save_error
  THEN [ sent |-> FALSE, order |-> o, rows |-> rows ]
  ELSE [ sent |-> TRUE, order |-> o,
         rows |-> Order_save(o, rows, t,
                    {"otp_code", "otp_expiry", "is_otp_verified", "status"}).rows ]

\* send_order_otp(order) at time t: whether the OTP was sent, the instance and
\* the table afterwards.
send_order_otp(order, rows, t, draw, save_error) ==
  IF ~Truthy(order.shipping_phone_number)
  THEN [ sent |-> FALSE, order |-> order, rows |-> rows ]
  ELSE send_order_otp_try(
         [order EXCEPT !.otp_code = Some(generate_otp(draw, OTP_LENGTH)),
                       !.otp_expiry = Some(t + OTP_EXPIRY_MINUTES),
                       !.is_otp_verified = FALSE,
                       !.status = AWAITING_OTP_VERIFICATION],
         rows, t, save_error)

\* ----------------------------------------------------- OrderCreateSerializer
\* sku_map.get(sku): the product row with that SKU, or None.
sku_map_get(sku) ==
  IF \E p \in products : p.sku = sku
  THEN Some(CHOOSE p \in products : p.sku = sku)
  ELSE None

RECURSIVE validate_items_loop_skipping(_, _, _, _)
\* validate_items that passes over an unavailable product instead of raising.
validate_items_loop_skipping(items_data, i, requires, validated) ==
  IF i > Len(items_data)
  THEN [ error |-> IF validated = <<>> THEN "No valid items found." ELSE "",
         requires_prescription |-> requires, validated |-> validated ]
  ELSE
    LET item == items_data[i]
        info == sku_map_get(item.sku)
    IN  IF info = None
        THEN [ error |-> "not found", requires_prescription |-> requires,
               validated |-> <<>> ]
        ELSE IF ~Val(info).is_available
        THEN validate_items_loop_skipping(items_data, i + 1, requires, validated)
        ELSE validate_items_loop_skipping(items_data, i + 1,
               requires \/ Val(info).requires_prescription,
               Append(validated,
                 [ sku |-> item.sku, quantity |-> item.quantity,
                   product_id |-> Val(info).id,
                   price_per_item |-> Val(info).selling_price,
                   product_name_snapshot |-> Val(info).name ]))

RECURSIVE validate_items_loop_last_wins(_, _, _, _)
\* validate_items whose flag is assigned from each item in turn, so that the
\* last item decides.
validate_items_loop_last_wins(items_data, i, requires, validated) ==
  IF i > Len(items_data)
  THEN [ error |-> IF validated = <<>> THEN "No valid items found." ELSE "",
         requires_prescription |-> requires, validated |-> validated ]
  ELSE
    LET item == items_data[i]
        info == sku_map_get(item.sku)
    IN  IF info = None
        THEN [ error |-> "not found", requires_prescription |-> requires,
               validated |-> <<>> ]
        ELSE IF ~Val(info).is_available
        THEN [ error |-> "unavailable", requires_prescription |-> requires,
               validated |-> <<>> ]
        ELSE validate_items_loop_last_wins(items_data, i + 1,
               Val(info).requires_prescription,
               Append(validated,
                 [ sku |-> item.sku, quantity |-> item.quantity,
                   product_id |-> Val(info).id,
                   price_per_item |-> Val(info).selling_price,
                   product_name_snapshot |-> Val(info).name ]))

RECURSIVE validate_items_loop(_, _, _, _)
\* The for loop of validate_items from item i on: the first offending item
\* raises; otherwise the flag and the validated list grow.
validate_items_loop(items_data, i, requires, validated) ==
  IF i > Len(items_data)
  THEN [ error |-> IF validated = <<>> THEN "No valid items found." ELSE "",
         requires_prescription |-> requires, validated |-> validated ]
  ELSE
    LET item == items_data[i]
        info == sku_map_get(item.sku)
    IN  IF info = None
        THEN [ error |-> "not found", requires_prescription |-> requires,
               validated |-> <<>> ]
        ELSE IF ~Val(info).is_available
        THEN [ error |-> "unavailable", requires_prescription |-> requires,
               validated |-> <<>> ]
        ELSE validate_items_loop(items_data, i + 1,
               requires \/ Val(info).requires_prescription,
               Append(validated,
                 [ sku |-> item.sku, quantity |-> item.quantity,
                   product_id |-> Val(info).id,
                   price_per_item |-> Val(info).selling_price,
                   product_name_snapshot |-> Val(info).name ]))

validate_items(items_data) ==
  IF items_data = <<>>
  THEN [ error |-> "Order must contain at least one item.",
         requires_prescription |-> FALSE, validated |-> <<>> ]
  ELSE validate_items_loop(items_data, 1, FALSE, <<>>)

\* validate_delivery_option_id that fetches by primary key alone.
validate_delivery_option_id_any(value) ==
  IF value = None THEN [ error |-> "", option |-> None ]
  ELSE IF \E d \in delivery_options : d.id = Val(value)
  THEN [ error |-> "",
         option |-> Some(CHOOSE d \in delivery_options : d.id = Val(value)) ]
  ELSE [ error |-> "Invalid or inactive Delivery Option ID.", option |-> None ]

\* validate_delivery_option_id(value): the option fetched, or the error.
validate_delivery_option_id(value) ==
  IF value = None THEN [ error |-> "", option |-> None ]
  ELSE IF \E d \in delivery_options : d.id = Val(value) /\ d.is_active
  THEN [ error |-> "",
         option |-> Some(CHOOSE d \in delivery_options : d.id = Val(value) /\ d.is_active) ]
  ELSE [ error |-> "Invalid or inactive Delivery Option ID.", option |-> None ]

\* Address.objects.get(pk=address_id): the lookup without the user.
Address_get_any(address_id, user) ==
  IF \E a \in Addresses : a.id = address_id
  THEN Some(CHOOSE a \in Addresses : a.id = address_id)
  ELSE None

\* Address.objects.get(pk=address_id, user=user), or None (DoesNotExist).
Address_get(address_id, user) ==
  IF \E a \in Addresses : a.id = address_id /\ a.user = user
  THEN Some(CHOOSE a \in Addresses : a.id = address_id /\ a.user = user)
  ELSE None

\* validate without the "not both" check: the saved address wins.
validate_checks_lenient(attrs, requires_prescription, shipping_provided, address) ==
  IF attrs.address_id = None /\ ~shipping_provided
  THEN [ error |-> "non_field_errors", address |-> None ]
  ELSE IF attrs.address_id /= None /\ address = None
  THEN [ error |-> "address_id", address |-> None ]
  ELSE IF requires_prescription /\ ~Truthy(attrs.prescription_upload)
  THEN [ error |-> "prescription_upload", address |-> address ]
  ELSE [ error |-> "", address |-> address ]

\* validate without its last check, the one of the prescription file.
validate_checks_no_upload(attrs, requires_prescription, shipping_provided, address) ==
  IF attrs.address_id /= None /\ shipping_provided
  THEN [ error |-> "non_field_errors", address |-> None ]
  ELSE IF attrs.address_id = None /\ ~shipping_provided
  THEN [ error |-> "non_field_errors", address |-> None ]
  ELSE IF attrs.address_id /= None /\ address = None
  THEN [ error |-> "address_id", address |-> None ]
  ELSE [ error |-> "", address |-> address ]

\* validate(attrs) once shipping_provided is computed and the address looked
\* up: the field in error ("" for none) and the address instance kept.
validate_checks(attrs, requires_prescription, shipping_provided, address) ==
  IF attrs.address_id /= None /\ shipping_provided
  THEN [ error |-> "non_field_errors", address |-> None ]
  ELSE IF attrs.address_id = None /\ ~shipping_provided
  THEN [ error |-> "non_field_errors", address |-> None ]
  ELSE IF attrs.address_id /= None /\ address = None
  THEN [ error |-> "address_id", address |-> None ]
  ELSE IF requires_prescription /\ ~Truthy(attrs.prescription_upload)
  THEN [ error |-> "prescription_upload", address |-> address ]
  ELSE [ error |-> "", address |-> address ]

\* validate(attrs), for the requesting user attrs.user.
validate(attrs, requires_prescription) ==
  validate_checks(attrs, requires_prescription,
    /\ Truthy(attrs.shipping_name)
    /\ Truthy(attrs.shipping_phone_number)
    /\ Truthy(attrs.shipping_address_line)
    /\ Truthy(attrs.shipping_city),
    IF attrs.address_id /= None
    THEN Address_get(Val(attrs.address_id), attrs.user) ELSE None)

\* run_validation once the field validators have run: their errors are
\* collected, and validate(attrs) has run only when no field is in error.
is_valid_collect(items, option, whole) ==
  [ errors |-> IF items.error /= "" \/ option.error /= ""
               THEN (IF items.error /= "" THEN {"items"} ELSE {})
                      \cup (IF option.error /= "" THEN {"delivery_option_id"} ELSE {})
               ELSE IF whole.error /= "" THEN {whole.error} ELSE {},
    items |-> items.validated,
    requires_prescription |-> items.requires_prescription,
    delivery_option |-> option.option,
    address |-> IF items.error /= "" \/ option.error /= "" THEN None
                ELSE whole.address ]

is_valid_fields(data, items, option) ==
  is_valid_collect(items, option, validate(data, items.requires_prescription))

\* serializer.is_valid(): the errors by field, and what validation keeps for
\* create (the validated items and the serializer's internal attributes).
is_valid(data) ==
  is_valid_fields(data, validate_items(data.items),
                  validate_delivery_option_id(data.delivery_option_id))

RECURSIVE sum_items_unit(_, _)
\* sum_items with the quantity left out of the product.
sum_items_unit(items_data, n) ==
  IF n = 0 THEN 0
  ELSE sum_items_unit(items_data, n - 1) + items_data[n].price_per_item

RECURSIVE sum_items(_, _)
\* sum(item['price_per_item'] * item['quantity'] for item in items_data)
sum_items(items_data, n) ==
  IF n = 0 THEN 0
  ELSE sum_items(items_data, n - 1)
         + items_data[n].price_per_item * items_data[n].quantity

\* The OrderItem rows bulk_create writes for an order.
OrderItem_rows(order, items_data, first_id) ==
  [ k \in 1..Len(items_data) |->
      [ id |-> first_id + k - 1,
        order |-> order.id,
        product |-> Some(items_data[k].product_id),
        price_per_item |-> items_data[k].price_per_item,
        quantity |-> items_data[k].quantity,
        product_name_snapshot |-> items_data[k].product_name_snapshot,
        product_sku_snapshot |-> items_data[k].sku ] ]

\* create_instance whose prescription status follows the upload alone.
create_instance_by_upload(validated, data, sub_total, delivery_charge, address, uuid, t) ==
  Order_init(
    [ user |-> data.user,
      sub_total |-> sub_total,
      delivery_charge_snapshot |-> delivery_charge,
      order_total |-> sub_total + delivery_charge,
      delivery_option |-> IF validated.delivery_option /= None
                          THEN Some(Val(validated.delivery_option).id) ELSE None,
      order_requires_prescription |-> validated.requires_prescription,
      prescription_status |->
        IF Truthy(data.prescription_upload) THEN PENDING_VERIFICATION
        ELSE IF validated.requires_prescription THEN PENDING_UPLOAD
        ELSE NOT_REQUIRED,
      status |-> PENDING,
      payment_method |-> data.payment_method,
      shipping_name |-> IF address /= None THEN Val(address).contact_name
                        ELSE data.shipping_name,
      shipping_phone_number |-> IF address /= None THEN Val(address).contact_phone
                                ELSE data.shipping_phone_number,
      shipping_address_line |-> IF address /= None THEN Val(address).address_line
                                ELSE data.shipping_address_line,
      shipping_city |-> IF address /= None THEN Val(address).city
                        ELSE data.shipping_city,
      shipping_pincode |-> IF address /= None THEN Val(address).pincode
                           ELSE data.shipping_pincode ],
    uuid, t)

\* The Order(...) instance create builds (lines 92-124), with its primary key.
create_instance(validated, data, sub_total, delivery_charge, address, uuid, t) ==
  Order_init(
    [ user |-> data.user,
      sub_total |-> sub_total,
      delivery_charge_snapshot |-> delivery_charge,
      order_total |-> sub_total + delivery_charge,
      delivery_option |-> IF validated.delivery_option /= None
                          THEN Some(Val(validated.delivery_option).id) ELSE None,
      order_requires_prescription |-> validated.requires_prescription,
      prescription_status |->
        IF validated.requires_prescription /\ Truthy(data.prescription_upload)
        THEN PENDING_VERIFICATION
        ELSE IF validated.requires_prescription THEN PENDING_UPLOAD
        ELSE NOT_REQUIRED,
      status |-> PENDING,
      payment_method |-> data.payment_method,
      shipping_name |-> IF address /= None THEN Val(address).contact_name
                        ELSE data.shipping_name,
      shipping_phone_number |-> IF address /= None THEN Val(address).contact_phone
                                ELSE data.shipping_phone_number,
      shipping_address_line |-> IF address /= None THEN Val(address).address_line
                                ELSE data.shipping_address_line,
      shipping_city |-> IF address /= None THEN Val(address).city
                        ELSE data.shipping_city,
      shipping_pincode |-> IF address /= None THEN Val(address).pincode
                           ELSE data.shipping_pincode ],
    uuid, t)

\* The end of create (lines 136-140): the result of send_order_otp decides.
create_otp(otp, items1) ==
  IF ~otp.sent
  THEN [ orders |-> otp.rows, order_items |-> items1,
         raised |-> "ValidationError", order |-> otp.order ]
  ELSE [ orders |-> otp.rows, order_items |-> items1, raised |-> "",
         order |-> otp.order ]

\* create from bulk_create on (lines 131-140), the order being attached.
create_items(attached, validated, items, t, draw, fault) ==
  IF fault = "items"
  THEN [ orders |-> attached.rows, order_items |-> items,
         raised |-> "DatabaseError", order |-> attached.order ]
  ELSE create_otp(
         send_order_otp(attached.order, attached.rows, t, draw, fault = "otp_save"),
         items \o OrderItem_rows(attached.order, validated.items, Len(items) + 1))

\* create from the prescription on (lines 126-140), the order being inserted.
create_attach(inserted, validated, data, rows, items, t, draw, fault) ==
  IF fault = "insert" \/ inserted.raised /= ""
  THEN [ orders |-> rows, order_items |-> items, raised |-> "DatabaseError",
         order |-> inserted.order ]
  ELSE create_items(
         IF Truthy(data.prescription_upload)
         THEN Order_save([inserted.order EXCEPT !.prescription = data.prescription_upload],
                         inserted.rows, t, {"prescription"})
         ELSE inserted,
         validated, items, t, draw, fault)

\* OrderCreateSerializer.create(validated_data), the body under
\* @transaction.atomic, at time t on the tables (rows, items): the tables as the
\* transaction has written them, the exception it ends with ("" for none) and
\* the instance it returns.  fault names the statement at which the database
\* fails, "" for a run without failure.
create(validated, data, rows, items, t, draw, fault) ==
  create_attach(
    Order_save(
      create_instance(validated, data,
        sum_items(validated.items, Len(validated.items)),
        IF validated.delivery_option /= None
        THEN Val(validated.delivery_option).base_charge ELSE 0,
        validated.address, Len(rows) + 1, t),
      rows, t, {}),
    validated, data, rows, items, t, draw, fault)

\* create without @transaction.atomic: the writes made before the exception stay.
transaction_autocommit(rows, items, result) ==
  [ orders |-> result.orders, order_items |-> result.order_items ]

\* @transaction.atomic: the writes of a body that raises are rolled back.
transaction_atomic(rows, items, result) ==
  IF result.raised /= ""
  THEN [ orders |-> rows, order_items |-> items ]
  ELSE [ orders |-> result.orders, order_items |-> result.order_items ]

\* ------------------------------------------------------------------ requests
NoShipping ==
  [ shipping_name |-> ABSENT, shipping_phone_number |-> ABSENT,
    shipping_address_line |-> ABSENT, shipping_city |-> ABSENT,
    shipping_pincode |-> ABSENT ]
FullShipping ==
  [ shipping_name |-> "Cy", shipping_phone_number |-> "0303",
    shipping_address_line |-> "3 Mid St", shipping_city |-> "Multan",
    shipping_pincode |-> "" ]
PartialShipping == [FullShipping EXCEPT !.shipping_city = ABSENT]

ListA2 == << [sku |-> "A", quantity |-> 2] >>
ListMixed == << [sku |-> "A", quantity |-> 1], [sku |-> "RX", quantity |-> 3],
                [sku |-> "A", quantity |-> 2] >>
ItemLists ==
  { <<>>, ListA2, ListMixed,
    << [sku |-> "A", quantity |-> 1], [sku |-> "OUT", quantity |-> 1] >>,
    << [sku |-> "ZZ", quantity |-> 1] >> }

\* A POST /orders body, with the authenticated user.
Request(u, a, sh, il, f, d) ==
  [ user |-> u, address_id |-> a, payment_method |-> "COD", items |-> il,
    prescription_upload |-> f, delivery_option_id |-> d,
    shipping_name |-> sh.shipping_name,
    shipping_phone_number |-> sh.shipping_phone_number,
    shipping_address_line |-> sh.shipping_address_line,
    shipping_city |-> sh.shipping_city,
    shipping_pincode |-> sh.shipping_pincode ]

\* The requests sent: every shipping target of either user, every item list
\* with and without a prescription file, every delivery option.
CreateRequests ==
  { Request(u, a, sh, ListA2, ABSENT, Some(1)) :
      u \in Users, a \in {None, Some(1)},
      sh \in {NoShipping, PartialShipping, FullShipping} }
  \cup { Request("u1", Some(1), NoShipping, il, f, None) :
           il \in ItemLists, f \in {ABSENT, "rx.pdf"} }
  \cup { Request("u2", None, FullShipping, ListA2, ABSENT, d) :
           d \in {Some(2), Some(9)} }
  \cup { Request("u1", Some(9), NoShipping, ListA2, ABSENT, None),
         Request("u1", None, NoShipping, ListMixed, ABSENT, None) }

\* What random.randint returns over one generate_otp call.
RandomDraws == { <<0, 0, 7, 1, 2, 3>>, <<9, 8, 7, 6, 5, 4>> }

\* The otp_code values of POST /orders/{id}/verify-otp bodies.
SubmittedCodes ==
  { <<0, 0, 7, 1, 2, 3>>, <<9, 8, 7, 6, 5, 4>>, <<1, 1, 1, 1, 1, 1>>,
    <<>>, <<7, 1, 2, 3>>, <<0, 0, 7, 1, 2, LETTER>> }

\* The statement of create at which the database fails ("": it does not).
Faults == {"", "insert", "items", "otp_save"}

\* ----------------------------------------------------------------- handlers
Response(op, result, errors, order) ==
  [ op |-> op, result |-> result, errors |-> errors, order |-> order ]

\* The response to POST /orders: 201 with the order, or the error.
create_response(result, committed) ==
  [ orders |-> committed.orders, order_items |-> committed.order_items,
    response |-> IF result.raised = ""
                 THEN Response("create", "created", {}, result.order.id)
                 ELSE Response("create", result.raised, {}, 0) ]

\* perform_create: serializer.save() runs create inside its transaction.
perform_create(result, rows, items) ==
  create_response(result, transaction_atomic(rows, items, result))

\* OrderViewSet.create once is_valid has run.
OrderViewSet_create_valid(validated, data, draw, fault, rows, items, t) ==
  IF validated.errors /= {}
  THEN [ orders |-> rows, order_items |-> items,
         response |-> Response("create", "validation_error", validated.errors, 0) ]
  ELSE perform_create(create(validated, data, rows, items, t, draw, fault),
                      rows, items)

\* OrderViewSet.create: POST /orders at time t.  The tables after the request
\* and the response.
OrderViewSet_create(data, draw, fault, rows, items, t) ==
  OrderViewSet_create_valid(is_valid(data), data, draw, fault, rows, items, t)

\* The base charge the order's delivery option has now (the snapshot if the
\* order has no option).
ChargeNow(order) ==
  IF \E d \in delivery_options : order.delivery_option = Some(d.id)
  THEN (CHOOSE d \in delivery_options : order.delivery_option = Some(d.id)).base_charge
  ELSE order.delivery_charge_snapshot

\* verify_confirm that recomputes the total from the delivery option and saves
\* every column.
verify_confirm_repricing(order, rows, t) ==
  Order_save(
    [order EXCEPT
       !.is_otp_verified = TRUE,
       !.status = IF order.order_requires_prescription
                     /\ order.prescription_status /= VERIFIED
                  THEN AWAITING_PRESCRIPTION ELSE PROCESSING,
       !.otp_code = None,
       !.otp_expiry = None,
       !.delivery_charge_snapshot = ChargeNow(order),
       !.order_total = order.sub_total + ChargeNow(order)],
    rows, t, {}).rows

\* verify_confirm that holds every order whose prescription is not VERIFIED,
\* required or not.
verify_confirm_unverified(order, rows, t) ==
  Order_save(
    [order EXCEPT
       !.is_otp_verified = TRUE,
       !.status = IF order.prescription_status /= VERIFIED
                  THEN AWAITING_PRESCRIPTION ELSE PROCESSING,
       !.otp_code = None,
       !.otp_expiry = None],
    rows, t, {"is_otp_verified", "status", "otp_code", "otp_expiry"}).rows

\* verify_confirm that goes to PROCESSING whatever the prescription state.
verify_confirm_processing(order, rows, t) ==
  Order_save(
    [order EXCEPT
       !.is_otp_verified = TRUE,
       !.status = PROCESSING,
       !.otp_code = None,
       !.otp_expiry = None],
    rows, t, {"is_otp_verified", "status", "otp_code", "otp_expiry"}).rows

\* A confirmation that records the verification and leaves the code in place.
verify_confirm_reusable(order, rows, t) ==
  Order_save([order EXCEPT !.is_otp_verified = TRUE],
             rows, t, {"is_otp_verified"}).rows

\* A confirmation that flips the verification flag the table holds.
verify_confirm_toggling(order, rows, t) ==
  Order_save(
    [order EXCEPT
       !.is_otp_verified = ~rows[order.id].is_otp_verified,
       !.status = IF order.order_requires_prescription
                     /\ order.prescription_status /= VERIFIED
                  THEN AWAITING_PRESCRIPTION ELSE PROCESSING,
       !.otp_code = None,
       !.otp_expiry = None],
    rows, t, {"is_otp_verified", "status", "otp_code", "otp_expiry"}).rows

\* The four columns a successful confirmation writes.
verify_confirm(order, rows, t) ==
  Order_save(
    [order EXCEPT
       !.is_otp_verified = TRUE,
       !.status = IF order.order_requires_prescription
                     /\ order.prescription_status /= VERIFIED
                  THEN AWAITING_PRESCRIPTION ELSE PROCESSING,
       !.otp_code = None,
       !.otp_expiry = None],
    rows, t, {"is_otp_verified", "status", "otp_code", "otp_expiry"}).rows

\* An else branch that burns the code after a failed attempt.
verify_reject_clearing(order, rows) ==
  Order_save([order EXCEPT !.otp_code = None, !.otp_expiry = None],
             rows, 0, {"otp_code", "otp_expiry"}).rows

\* The else branch of post: the error response is returned, nothing is written.
verify_reject(order, rows) == rows

\* post with the serializer validated before the status is looked at.
OrderOtpVerifyView_post_validating_first(user, order_id, submitted_otp, rows, t) ==
  IF ~(order_id \in 1..Len(rows) /\ rows[order_id].user = user)
  THEN [ orders |-> rows, response |-> Response("verify", "not_found", {}, 0) ]
  ELSE IF Len(submitted_otp) /= OTP_LENGTH \/ ~isdigit(submitted_otp)
  THEN [ orders |-> rows,
         response |-> Response("verify", "validation_error", {"otp_code"}, order_id) ]
  ELSE IF rows[order_id].status /= AWAITING_OTP_VERIFICATION
  THEN [ orders |-> rows,
         response |-> Response("verify", "invalid_state", {}, order_id) ]
  ELSE IF is_otp_valid(rows[order_id], submitted_otp, t)
  THEN [ orders |-> verify_confirm(rows[order_id], rows, t),
         response |-> Response("verify", "confirmed", {}, order_id) ]
  ELSE [ orders |-> verify_reject(rows[order_id], rows),
         response |-> Response("verify", "invalid_otp", {}, order_id) ]

\* post that looks the order up by its id alone, whoever asks.
OrderOtpVerifyView_post_any_user(user, order_id, submitted_otp, rows, t) ==
  IF ~(order_id \in 1..Len(rows))
  THEN [ orders |-> rows, response |-> Response("verify", "not_found", {}, 0) ]
  ELSE IF rows[order_id].status /= AWAITING_OTP_VERIFICATION
  THEN [ orders |-> rows,
         response |-> Response("verify", "invalid_state", {}, order_id) ]
  ELSE IF Len(submitted_otp) /= OTP_LENGTH \/ ~isdigit(submitted_otp)
  THEN [ orders |-> rows,
         response |-> Response("verify", "validation_error", {"otp_code"}, order_id) ]
  ELSE IF is_otp_valid(rows[order_id], submitted_otp, t)
  THEN [ orders |-> verify_confirm(rows[order_id], rows, t),
         response |-> Response("verify", "confirmed", {}, order_id) ]
  ELSE [ orders |-> verify_reject(rows[order_id], rows),
         response |-> Response("verify", "invalid_otp", {}, order_id) ]

\* post without the check of the order's status.
OrderOtpVerifyView_post_any_status(user, order_id, submitted_otp, rows, t) ==
  IF ~(order_id \in 1..Len(rows) /\ rows[order_id].user = user)
  THEN [ orders |-> rows, response |-> Response("verify", "not_found", {}, 0) ]
  ELSE IF Len(submitted_otp) /= OTP_LENGTH \/ ~isdigit(submitted_otp)
  THEN [ orders |-> rows,
         response |-> Response("verify", "validation_error", {"otp_code"}, order_id) ]
  ELSE IF is_otp_valid(rows[order_id], submitted_otp, t)
  THEN [ orders |-> verify_confirm(rows[order_id], rows, t),
         response |-> Response("verify", "confirmed", {}, order_id) ]
  ELSE [ orders |-> verify_reject(rows[order_id], rows),
         response |-> Response("verify", "invalid_otp", {}, order_id) ]

\* OrderOtpVerifyView.post: POST /orders/{order_id}/verify-otp at time t.
OrderOtpVerifyView_post(user, order_id, submitted_otp, rows, t) ==
  IF ~(order_id \in 1..Len(rows) /\ rows[order_id].user = user)
  THEN [ orders |-> rows, response |-> Response("verify", "not_found", {}, 0) ]
  ELSE IF rows[order_id].status /= AWAITING_OTP_VERIFICATION
  THEN [ orders |-> rows,
         response |-> Response("verify", "invalid_state", {}, order_id) ]
  ELSE IF Len(submitted_otp) /= OTP_LENGTH \/ ~isdigit(submitted_otp)
  THEN [ orders |-> rows,
         response |-> Response("verify", "validation_error", {"otp_code"}, order_id) ]
  ELSE IF is_otp_valid(rows[order_id], submitted_otp, t)
  THEN [ orders |-> verify_confirm(rows[order_id], rows, t),
         response |-> Response("verify", "confirmed", {}, order_id) ]
  ELSE [ orders |-> verify_reject(rows[order_id], rows),
         response |-> Response("verify", "invalid_otp", {}, order_id) ]

\* -------------------------------------------------------------------- state
Idle == Response("none", "", {}, 0)

\* The workers that handle requests at the same time.
Workers == {"w1", "w2"}

\* A worker between two requests.
Free == [ pc |-> "free" ]

NoRequests == [ w \in Workers |-> Free ]

\* The Address table at the start: the saved addresses, none of them default.
AddressRows ==
  { [ id |-> a.id, user |-> a.user, is_default |-> FALSE ] : a \in Addresses }

Init ==
  /\ now = 0
  /\ orders = <<>>
  /\ order_items = <<>>
  /\ last = Idle
  /\ products = Products
  /\ delivery_options = DeliveryOptions
  /\ inflight = NoRequests
  /\ cart_items = {}
  /\ addresses = AddressRows

\* The instants looked at: the minutes at which orders are placed, and the
\* minutes from the first expiry on.
Instants ==
  { t \in 0..MaxTime : t <= MaxCreateTime \/ t >= OTP_EXPIRY_MINUTES }

\* Time passes, to the next instant looked at.
Tick ==
  /\ last = Idle
  /\ \E t \in Instants :
       /\ t > now
       /\ \A u \in Instants : u > now => t <= u
       /\ now' = t
  /\ UNCHANGED <<orders, order_items, last, products, delivery_options>>
  /\ UNCHANGED others

\* The response reaches the client; the server takes the next request.
Respond ==
  /\ last /= Idle
  /\ last' = Idle
  /\ UNCHANGED <<now, orders, order_items, products, delivery_options>>
  /\ UNCHANGED others

\* A request is handled: its writes reach the tables, its response the client.
Handled(r) ==
  /\ Len(r.orders) <= MaxOrders
  /\ orders' = r.orders
  /\ order_items' = r.order_items
  /\ last' = r.response

\* A client places an order: one of the requests, with one of the draws of the
\* random source and one of the database faults.
PlaceOrderFrom(requests, draws, faults) ==
  /\ last = Idle
  /\ now <= MaxCreateTime
  /\ \E data \in requests :
       \E draw \in draws, fault \in faults :
         Handled(OrderViewSet_create(data, draw, fault, orders, order_items, now))
  /\ UNCHANGED <<now, products, delivery_options>>
  /\ UNCHANGED others

PlaceOrder == PlaceOrderFrom(CreateRequests, RandomDraws, Faults)

\* A client submits a confirmation code.
VerifyOtpWith(codes) ==
  /\ last = Idle
  /\ \E user \in Users, order_id \in 1..(MaxOrders + 1), code \in codes :
       Handled([ order_items |-> order_items ]
                 @@ OrderOtpVerifyView_post(user, order_id, code, orders, now))
  /\ UNCHANGED <<now, products, delivery_options>>
  /\ UNCHANGED others

VerifyOtp == VerifyOtpWith(SubmittedCodes)

\* The changes staff make on the OrderAdmin change form: the prescription of an
\* order that waits for it is found good, and an order that was never confirmed
\* is cancelled.
AdminChanges(order) ==
  (IF order.prescription_status = PENDING_VERIFICATION
   THEN { [order EXCEPT !.prescription_status = VERIFIED] }
   ELSE {})
  \cup (IF order.status = AWAITING_OTP_VERIFICATION
        THEN { [order EXCEPT !.status = CANCELLED] }
        ELSE {})

\* OrderAdmin change form: the row is saved as edited.
OrderAdmin_change ==
  /\ last = Idle
  /\ \E order_id \in 1..Len(orders) :
       \E edited \in AdminChanges(orders[order_id]) :
         /\ orders' = Order_save(edited, orders, now, {}).rows
         /\ last' = Response("admin", "saved", {}, order_id)
  /\ UNCHANGED <<now, order_items, products, delivery_options>>
  /\ UNCHANGED others

Next ==
  \/ Tick
  \/ Respond
  \/ PlaceOrder
  \/ VerifyOtp
  \/ OrderAdmin_change

Spec == Init /\ [][Next]_vars

\* ---------------------------------------------------------------- catalogue
\* What staff enter on the ProductAdmin change form.
ProductEdits == { [selling_price |-> 12000, name |-> "Generic"] }

Product_edit(p, e) ==
  [p EXCEPT !.selling_price = e.selling_price, !.name = e.name]

\* ProductAdmin change form: the product row is saved as edited.
ProductAdmin_change ==
  /\ last = Idle
  /\ \E p \in products, e \in ProductEdits :
       /\ Product_edit(p, e) /= p
       /\ products' = (products \ {p}) \cup {Product_edit(p, e)}
  /\ UNCHANGED <<now, orders, order_items, last, delivery_options>>
  /\ UNCHANGED others

\* OrderItem.product with on_delete=CASCADE: the rows go with the product.
OrderItem_cascade(items, product_id) ==
  SelectSeq(items, LAMBDA row : row.product /= Some(product_id))

\* OrderItem.product, on_delete=SET_NULL: the rows that refer to a deleted
\* product lose the reference.
OrderItem_set_null(items, product_id) ==
  [ k \in 1..Len(items) |->
      IF items[k].product = Some(product_id)
      THEN [items[k] EXCEPT !.product = None] ELSE items[k] ]

\* ProductAdmin delete: the product row is deleted.
ProductAdmin_delete ==
  /\ last = Idle
  /\ \E p \in products :
       /\ products' = products \ {p}
       /\ order_items' = OrderItem_set_null(order_items, p.id)
  /\ UNCHANGED <<now, orders, last, delivery_options>>
  /\ UNCHANGED others

\* What staff enter on the DeliveryOptionAdmin change form: a new charge, or
\* the option made inactive.
DeliveryOptionEdits ==
  { [base_charge |-> 6000, is_active |-> TRUE],
    [base_charge |-> 5000, is_active |-> FALSE] }

DeliveryOption_edit(d, e) ==
  [d EXCEPT !.base_charge = e.base_charge, !.is_active = e.is_active]

\* DeliveryOptionAdmin change form: the option row is saved as edited.
DeliveryOptionAdmin_change ==
  /\ last = Idle
  /\ \E d \in delivery_options, e \in DeliveryOptionEdits :
       /\ DeliveryOption_edit(d, e) /= d
       /\ delivery_options' = (delivery_options \ {d}) \cup {DeliveryOption_edit(d, e)}
  /\ UNCHANGED <<now, orders, order_items, last, products>>
  /\ UNCHANGED others

\* The orders placed while the catalogue changes.
CatalogRequests ==
  { Request("u1", Some(1), NoShipping, ListA2, ABSENT, d) : d \in {None, Some(1)} }

CatalogDraws == { <<0, 0, 7, 1, 2, 3>> }

CatalogCodes == { <<0, 0, 7, 1, 2, 3>>, <<1, 1, 1, 1, 1, 1>> }

CatalogPlaceOrder == PlaceOrderFrom(CatalogRequests, CatalogDraws, {""})

CatalogVerifyOtp == VerifyOtpWith(CatalogCodes)

\* A shop with one product and one delivery option.
CatalogInit ==
  /\ now = 0
  /\ orders = <<>>
  /\ order_items = <<>>
  /\ last = Idle
  /\ products = { p \in Products : p.sku = "A" }
  /\ delivery_options = { d \in DeliveryOptions : d.id = 1 }
  /\ inflight = NoRequests
  /\ cart_items = {}
  /\ addresses = AddressRows

CatalogNext ==
  \/ Tick
  \/ Respond
  \/ CatalogPlaceOrder
  \/ CatalogVerifyOtp
  \/ ProductAdmin_change
  \/ ProductAdmin_delete
  \/ DeliveryOptionAdmin_change

\* Orders are placed and confirmed while staff edit the catalogue.
CatalogSpec == CatalogInit /\ [][CatalogNext]_vars

\* ------------------------------------------------- concurrent confirmations
\* OrderOtpVerifyView.post as two workers run it at the same time: each step
\* below is one access of the handler to the database, or its answer.

\* The orders placed before the confirmations race: one of plain items, one
\* that requires a prescription.
RaceRequests ==
  { Request("u1", Some(1), NoShipping, il, "rx.pdf", None) : il \in {ListA2, ListMixed} }

RacePlaceOrder == PlaceOrderFrom(RaceRequests, CatalogDraws, {""})

\* The table as the worker sees it: the row it read, in place of the row the
\* table holds now.
Held(w) == [orders EXCEPT ![inflight[w].order_id] = inflight[w].order]

\* The worker's answer to the request it holds.
Answer(w, response) == [inflight[w] EXCEPT !.pc = "done", !.response = response]

\* get_object_or_404(Order, pk=order_id, user=request.user): the worker takes
\* a request and reads the row, or answers 404.
post_get_object(w) ==
  /\ inflight[w] = Free
  /\ \E user \in Users, order_id \in 1..MaxOrders, code \in CatalogCodes :
       inflight' = [inflight EXCEPT ![w] =
         IF order_id \in 1..Len(orders) /\ orders[order_id].user = user
         THEN [ pc |-> "check", user |-> user, order_id |-> order_id,
                otp_code |-> code, order |-> orders[order_id], response |-> Idle ]
         ELSE [ pc |-> "done", user |-> user, order_id |-> order_id,
                otp_code |-> code, order |-> Free,
                response |-> Response("verify", "not_found", {}, 0) ]]
  /\ UNCHANGED <<now, orders, order_items, last, products, delivery_options,
                 cart_items, addresses>>

\* The checks of post on the row read: its status, the form of the code, and
\* is_otp_valid at the present time.
post_check(w) ==
  /\ inflight[w].pc = "check"
  /\ inflight' = [inflight EXCEPT ![w] =
       IF OrderOtpVerifyView_post(inflight[w].user, inflight[w].order_id,
            inflight[w].otp_code, Held(w), now).response.result = "confirmed"
       THEN [inflight[w] EXCEPT !.pc = "save"]
       ELSE Answer(w, OrderOtpVerifyView_post(inflight[w].user, inflight[w].order_id,
                        inflight[w].otp_code, Held(w), now).response)]
  /\ UNCHANGED <<now, orders, order_items, last, products, delivery_options,
                 cart_items, addresses>>

\* order.save(update_fields=[...]) of the row read, and the 200 response.
post_save(w) ==
  /\ inflight[w].pc = "save"
  /\ orders' = verify_confirm(inflight[w].order, orders, now)
  /\ inflight' = [inflight EXCEPT ![w] =
       Answer(w, Response("verify", "confirmed", {}, inflight[w].order_id))]
  /\ UNCHANGED <<now, order_items, last, products, delivery_options,
                 cart_items, addresses>>

\* The answer has reached the client; the worker is free again.
post_return(w) ==
  /\ inflight[w].pc = "done"
  /\ inflight' = [inflight EXCEPT ![w] = Free]
  /\ UNCHANGED <<now, orders, order_items, last, products, delivery_options,
                 cart_items, addresses>>

ConfirmRaceNext ==
  \/ Tick
  \/ Respond
  \/ RacePlaceOrder
  \/ \E w \in Workers : post_get_object(w)
  \/ \E w \in Workers : post_check(w)
  \/ \E w \in Workers : post_save(w)
  \/ \E w \in Workers : post_return(w)

\* Orders are placed and two workers confirm them at the same time.
ConfirmRaceSpec == Init /\ [][ConfirmRaceNext]_vars

\* ------------------------------------------------------------------- cart
\* POST /cart/items/ as the workers run it at the same time: each action below
\* is one access of the handler to the database.  Every user has a cart, named
\* after its user; a CartItem row is [id, cart, product, quantity].

MaxQuantity == 2

\* Three requests are in progress at most, each on a worker of its own.
CartWorkers == {"w1", "w2", "w3"}

\* The bodies sent: a product that is on sale and one that is not, quantities
\* from 0 on.
AddItemRequests ==
  { [ user |-> u, product_id |-> p, quantity |-> q ] :
      u \in Users, p \in {1, 3}, q \in 0..MaxQuantity }

\* AddCartItemSerializer.validate_product_id: the product exists and is
\* available.
validate_product_id(value) ==
  \E p \in products : p.id = value /\ p.is_available

\* AddCartItemSerializer.is_valid: quantity has min_value=1.
AddCartItemSerializer_is_valid(data) ==
  data.quantity >= 1 /\ validate_product_id(data.product_id)

\* CartItem.objects.get(cart=cart, product_id=product_id): the rows found.
CartItem_get(rows, cart, product_id) ==
  { row \in rows : row.cart = cart /\ row.product = product_id }

\* cart_item.save() of an instance read before: the row with its primary key
\* is written as the instance holds it.
CartItem_save(rows, self) ==
  { row \in rows : row.id /= self.id } \cup {self}

\* CartItem.objects.create(...): the row is inserted unless unique_together
\* ('cart', 'product') forbids it.
CartItem_create(rows, cart, product_id, quantity) ==
  IF CartItem_get(rows, cart, product_id) /= {}
  THEN [ rows |-> rows, raised |-> "IntegrityError" ]
  ELSE [ rows |-> rows \cup { [ id |-> Cardinality(rows) + 1, cart |-> cart,
                                product |-> product_id, quantity |-> quantity ] },
         raised |-> "" ]

\* CartViewSet.add_item up to serializer.is_valid: the worker takes a request
\* and validates it.
add_item(w) ==
  /\ inflight[w] = Free
  /\ \E data \in AddItemRequests :
       inflight' = [inflight EXCEPT ![w] =
         IF AddCartItemSerializer_is_valid(data)
         THEN [ pc |-> "get", data |-> data, cart_item |-> Free, response |-> Idle ]
         ELSE [ pc |-> "done", data |-> data, cart_item |-> Free,
                response |-> Response("add_item", "validation_error", {}, 0) ]]
  /\ UNCHANGED <<now, orders, order_items, last, products, delivery_options,
                 cart_items, addresses>>

\* AddCartItemSerializer.save, the try: the line is looked up.
AddCartItemSerializer_save_get(w) ==
  /\ inflight[w].pc = "get"
  /\ inflight' = [inflight EXCEPT ![w] =
       IF CartItem_get(cart_items, inflight[w].data.user,
                       inflight[w].data.product_id) /= {}
       THEN [inflight[w] EXCEPT
               !.pc = "update",
               !.cart_item = CHOOSE row \in CartItem_get(cart_items,
                               inflight[w].data.user, inflight[w].data.product_id) : TRUE]
       ELSE [inflight[w] EXCEPT !.pc = "create"]]
  /\ UNCHANGED <<now, orders, order_items, last, products, delivery_options,
                 cart_items, addresses>>

\* AddCartItemSerializer.save, the line found: cart_item.quantity += quantity
\* and cart_item.save(); the view answers 201.
AddCartItemSerializer_save_update(w) ==
  /\ inflight[w].pc = "update"
  /\ cart_items' = CartItem_save(cart_items,
       [inflight[w].cart_item EXCEPT
          !.quantity = inflight[w].cart_item.quantity + inflight[w].data.quantity])
  /\ inflight' = [inflight EXCEPT ![w] =
       [inflight[w] EXCEPT !.pc = "done",
                           !.response = Response("add_item", "created", {}, 0)]]
  /\ UNCHANGED <<now, orders, order_items, last, products, delivery_options,
                 addresses>>

\* AddCartItemSerializer.save, the line not found: CartItem.objects.create;
\* the view answers 201, or the IntegrityError goes unhandled.
AddCartItemSerializer_save_create(w) ==
  /\ inflight[w].pc = "create"
  /\ cart_items' = CartItem_create(cart_items, inflight[w].data.user,
       inflight[w].data.product_id, inflight[w].data.quantity).rows
  /\ inflight' = [inflight EXCEPT ![w] =
       [inflight[w] EXCEPT
          !.pc = "done",
          !.response =
             IF CartItem_create(cart_items, inflight[w].data.user,
                  inflight[w].data.product_id, inflight[w].data.quantity).raised = ""
             THEN Response("add_item", "created", {}, 0)
             ELSE Response("add_item", "IntegrityError", {}, 0)]]
  /\ UNCHANGED <<now, orders, order_items, last, products, delivery_options,
                 addresses>>

\* The shop with empty carts and three workers.
CartInit ==
  /\ now = 0
  /\ orders = <<>>
  /\ order_items = <<>>
  /\ last = Idle
  /\ products = Products
  /\ delivery_options = DeliveryOptions
  /\ inflight = [ w \in CartWorkers |-> Free ]
  /\ cart_items = {}
  /\ addresses = AddressRows

CartNext ==
  \/ \E w \in CartWorkers : add_item(w)
  \/ \E w \in CartWorkers : AddCartItemSerializer_save_get(w)
  \/ \E w \in CartWorkers : AddCartItemSerializer_save_update(w)
  \/ \E w \in CartWorkers : AddCartItemSerializer_save_create(w)

\* Up to three add-item requests, one after the other or at the same time.
CartSpec == CartInit /\ [][CartNext]_vars

\* -------------------------------------------------------------- addresses
\* POST /addresses/ and PUT /addresses/{id}/ as the workers run them at the
\* same time: each action below is one access of the handler to the database.
\* An Address row is [id, user, is_default].

\* Three requests are in progress at most, each on a worker of its own.
AddressWorkers == {"w1", "w2", "w3"}

\* The primary key of an instance that is not in the table yet: its uuid4
\* default, which no row has.
NewPk == 0

\* Address.objects.filter(user=self.user).exclude(pk=self.pk)
\*   .update(is_default=False)
Address_clear_default(rows, self) ==
  { IF row.user = self.user /\ row.id /= self.id
    THEN [row EXCEPT !.is_default = FALSE] ELSE row : row \in rows }

\* super().save(): the row is inserted, or written as the instance holds it.
Address_write(rows, self) ==
  IF self.id = NewPk
  THEN rows \cup { [self EXCEPT !.id = Cardinality(rows) + 1] }
  ELSE { row \in rows : row.id /= self.id } \cup {self}

\* AddressViewSet.create and AddressSerializer.create: the worker takes a POST
\* and builds the instance for the requesting user.
AddressViewSet_create(w) ==
  /\ inflight[w] = Free
  /\ \E user \in Users, is_default \in BOOLEAN :
       inflight' = [inflight EXCEPT ![w] =
         [ pc |-> "save",
           self |-> [ id |-> NewPk, user |-> user, is_default |-> is_default ] ]]
  /\ UNCHANGED <<now, orders, order_items, last, products, delivery_options,
                 cart_items, addresses>>

\* AddressViewSet.update: the worker takes a PUT, reads the address among the
\* user's own (get_queryset) and sets the submitted flag on the instance.
AddressViewSet_update(w) ==
  /\ inflight[w] = Free
  /\ \E row \in addresses, is_default \in BOOLEAN :
       inflight' = [inflight EXCEPT ![w] =
         [ pc |-> "save", self |-> [row EXCEPT !.is_default = is_default] ]]
  /\ UNCHANGED <<now, orders, order_items, last, products, delivery_options,
                 cart_items, addresses>>

\* Address.save, its first statement: the other addresses of the user lose
\* the flag if the instance is the default.
Address_save_clear(w) ==
  /\ inflight[w].pc = "save"
  /\ addresses' = IF inflight[w].self.is_default
                   THEN Address_clear_default(addresses, inflight[w].self)
                   ELSE addresses
  /\ inflight' = [inflight EXCEPT ![w] = [inflight[w] EXCEPT !.pc = "write"]]
  /\ UNCHANGED <<now, orders, order_items, last, products, delivery_options,
                 cart_items>>

\* Address.save, its second statement: super().save().
Address_save_write(w) ==
  /\ inflight[w].pc = "write"
  /\ addresses' = Address_write(addresses, inflight[w].self)
  /\ inflight' = [inflight EXCEPT ![w] = [inflight[w] EXCEPT !.pc = "done"]]
  /\ UNCHANGED <<now, orders, order_items, last, products, delivery_options,
                 cart_items>>

\* The shop with one saved address per user and three workers.
AddressInit ==
  /\ now = 0
  /\ orders = <<>>
  /\ order_items = <<>>
  /\ last = Idle
  /\ products = Products
  /\ delivery_options = DeliveryOptions
  /\ inflight = [ w \in AddressWorkers |-> Free ]
  /\ cart_items = {}
  /\ addresses = AddressRows

AddressNext ==
  \/ \E w \in AddressWorkers : AddressViewSet_create(w)
  \/ \E w \in AddressWorkers : AddressViewSet_update(w)
  \/ \E w \in AddressWorkers : Address_save_clear(w)
  \/ \E w \in AddressWorkers : Address_save_write(w)

\* Up to three address saves, one after the other or at the same time.
AddressSpec == AddressInit /\ [][AddressNext]_vars

\* ------------------------------------------------------------------ claims
Owner(i) == orders[i].user
OrderIds == 1..Len(orders)

\* C1: no two persisted orders carry the same order number.
C1_OrderNumbersDistinct ==
  \A i, j \in OrderIds : i /= j => orders[i].order_number /= orders[j].order_number

\* The order number has the form YYMMDD-NNNN: the creation date and four digits.
WellFormedNumber(order) ==
  /\ order.order_number /= None
  /\ Val(order.order_number).date = DayOf(order.created_at)
  /\ Len(Val(order.order_number).tail) = OrderNumberWidth
  /\ isdigit(Val(order.order_number).tail)

\* C2: every persisted order has a non-null order number of the form
\* YYMMDD-NNNN, allocated at creation.
C2_OrderNumberAllocated ==
  \A i \in OrderIds : WellFormedNumber(orders[i])

\* The catalogue price of a product, and the total of a submitted item list.
PriceOf(sku) == (CHOOSE p \in products : p.sku = sku).selling_price

RECURSIVE ListTotal(_)
ListTotal(il) ==
  IF il = <<>> THEN 0
  ELSE PriceOf(Head(il).sku) * Head(il).quantity + ListTotal(Tail(il))

RECURSIVE RowsTotal(_, _)
\* The sum of price_per_item * quantity over the first n OrderItem rows that
\* belong to order i.
RowsTotal(i, n) ==
  IF n = 0 THEN 0
  ELSE RowsTotal(i, n - 1)
         + (IF order_items[n].order = i
            THEN order_items[n].price_per_item * order_items[n].quantity ELSE 0)

CreatedTotalsExact(data, r) ==
  r.response.result = "created" =>
    /\ r.orders[r.response.order].sub_total = ListTotal(data.items)
    /\ r.orders[r.response.order].order_total =
         ListTotal(data.items) + r.orders[r.response.order].delivery_charge_snapshot

\* C3: the sub_total of an order is the exact sum of selling price times
\* quantity over the submitted items, which is also the sum over its OrderItem
\* rows, and order_total is sub_total plus delivery_charge_snapshot.
C3_TotalsExact ==
  /\ \A i \in OrderIds :
       /\ orders[i].sub_total = RowsTotal(i, Len(order_items))
       /\ orders[i].order_total = orders[i].sub_total + orders[i].delivery_charge_snapshot
  /\ \A data \in CreateRequests, draw \in RandomDraws :
       CreatedTotalsExact(data,
         OrderViewSet_create(data, draw, "", orders, order_items, now))

\* An order of scenario A (two units at 100.00, delivery at 50.00) and an order
\* of three lines have just been placed.
C3_Witness ==
  /\ last.result = "created"
  /\ \E i \in OrderIds : orders[i].sub_total = 20000 /\ orders[i].order_total = 25000
  /\ \E i \in OrderIds : orders[i].sub_total = 10000 + 3 * 2550 + 20000

\* C4 as amended: is_otp_valid is true exactly when a code and an expiry are
\* stored, the submitted code has the stored code's length, the time is not
\* after the expiry, and the two codes are equal.
C4_OtpValidExactly ==
  \A i \in OrderIds, c \in SubmittedCodes :
     is_otp_valid(orders[i], c, now) <=>
       /\ orders[i].otp_code /= None
       /\ orders[i].otp_expiry /= None
       /\ Len(c) = Len(Val(orders[i].otp_code))
       /\ now <= Val(orders[i].otp_expiry)
       /\ c = Val(orders[i].otp_code)

\* C4 as stated: ... the time is before the expiry ...
C4_OtpValidBeforeExpiry ==
  \A i \in OrderIds, c \in SubmittedCodes :
     is_otp_valid(orders[i], c, now) <=>
       /\ orders[i].otp_code /= None
       /\ orders[i].otp_expiry /= None
       /\ Len(c) = Len(Val(orders[i].otp_code))
       /\ now < Val(orders[i].otp_expiry)
       /\ c = Val(orders[i].otp_code)

\* One order holds a code that has expired, another has none left, and a code
\* was just refused.
C4_Witness ==
  /\ last.result = "invalid_otp"
  /\ \E i \in OrderIds :
       orders[i].otp_code /= None /\ now > Val(orders[i].otp_expiry)
  /\ \E i \in OrderIds : orders[i].otp_code = None

\* The response to the owner's confirm request with code c on order i.
Confirm(i, c) == OrderOtpVerifyView_post(Owner(i), i, c, orders, now)

Awaiting(i) ==
  /\ orders[i].status = AWAITING_OTP_VERIFICATION
  /\ orders[i].otp_code /= None
  /\ orders[i].otp_expiry /= None

\* C5 as amended: a confirm succeeds only when the time is not after the stored
\* expiry; the correct code submitted at exactly the expiry instant is accepted,
\* and it is refused at any later time.
C5_AcceptedUntilExpiry ==
  \A i \in OrderIds :
     /\ \A c \in SubmittedCodes :
          Confirm(i, c).response.result = "confirmed" =>
            now <= Val(orders[i].otp_expiry)
     /\ Awaiting(i) =>
          /\ now = Val(orders[i].otp_expiry) =>
               Confirm(i, Val(orders[i].otp_code)).response.result = "confirmed"
          /\ now > Val(orders[i].otp_expiry) =>
               Confirm(i, Val(orders[i].otp_code)).response.result = "invalid_otp"

\* C5 as stated: the correct code submitted at exactly the expiry instant is
\* rejected.
C5_RejectedAtExpiry ==
  \A i \in OrderIds :
     Awaiting(i) /\ now = Val(orders[i].otp_expiry) =>
       Confirm(i, Val(orders[i].otp_code)).response.result /= "confirmed"

\* An order was just confirmed at the very minute its code expires.
C5_Witness ==
  /\ last.op = "verify" /\ last.result = "confirmed"
  /\ now = orders[last.order].created_at + OTP_EXPIRY_MINUTES

\* The codes a client may send about order i: the fixed ones and the stored one.
CodesFor(i) ==
  SubmittedCodes \cup
    (IF orders[i].otp_code /= None THEN {Val(orders[i].otp_code)} ELSE {})

OtpFields == {"status", "otp_code", "otp_expiry", "is_otp_verified"}

\* C6: a confirm request of the owner on an order whose status is not
\* AWAITING_OTP_VERIFICATION gets the invalid-state error whatever the code
\* (well-formed, malformed, or the stored code), and no row changes.
C6_InvalidStateRefused ==
  \A i \in OrderIds :
     orders[i].status /= AWAITING_OTP_VERIFICATION =>
       \A c \in CodesFor(i) :
          /\ Confirm(i, c).response.result = "invalid_state"
          /\ Confirm(i, c).orders = orders

\* A cancelled order that still stores its code was just refused a confirm.
C6_Witness ==
  /\ last.op = "verify" /\ last.result = "invalid_state"
  /\ orders[last.order].status = CANCELLED
  /\ orders[last.order].otp_code /= None

\* After the response r, the stored code of order i confirms it at every
\* later instant before its expiry.
StillConfirmable(i, r) ==
  \A t \in Instants :
     now <= t /\ t < Val(orders[i].otp_expiry) =>
       OrderOtpVerifyView_post(Owner(i), i, Val(orders[i].otp_code), r.orders, t)
         .response.result = "confirmed"

\* C7: a confirm request whose code fails OTP validation (wrong digits or
\* expired) changes no row, so the stored code, submitted afterwards before
\* the expiry, still confirms the order.
C7_FailedConfirmHarmless ==
  \A i \in OrderIds, c \in SubmittedCodes :
     Confirm(i, c).response.result = "invalid_otp" =>
       /\ Confirm(i, c).orders = orders
       /\ StillConfirmable(i, Confirm(i, c))

\* A wrong code was just refused on an order whose code has not expired.
C7_Witness ==
  /\ last.op = "verify" /\ last.result = "invalid_otp"
  /\ orders[last.order].status = AWAITING_OTP_VERIFICATION
  /\ orders[last.order].otp_code /= None
  /\ now < Val(orders[last.order].otp_expiry)

\* The status a confirmed order moves to.
StatusAfterConfirm(order) ==
  IF order.order_requires_prescription /\ order.prescription_status /= VERIFIED
  THEN AWAITING_PRESCRIPTION ELSE PROCESSING

\* The table r differs from orders in the four confirmation columns of row i
\* only, and these hold the confirmed values.
ConfirmedExactly(i, r) ==
  /\ Len(r.orders) = Len(orders)
  /\ \A j \in OrderIds : j /= i => r.orders[j] = orders[j]
  /\ \A f \in OrderFields \ OtpFields : r.orders[i][f] = orders[i][f]
  /\ r.orders[i].is_otp_verified = TRUE
  /\ r.orders[i].otp_code = None
  /\ r.orders[i].otp_expiry = None
  /\ r.orders[i].status = StatusAfterConfirm(orders[i])

\* C8: a confirm request with the stored, unexpired code on an order in
\* AWAITING_OTP_VERIFICATION succeeds and sets is_otp_verified, clears otp_code
\* and otp_expiry, and sets status to AWAITING_PRESCRIPTION if the order
\* requires a prescription not yet VERIFIED, else to PROCESSING; nothing else
\* changes.
C8_ConfirmEffect ==
  \A i \in OrderIds :
     /\ Awaiting(i) /\ now <= Val(orders[i].otp_expiry) =>
          Confirm(i, Val(orders[i].otp_code)).response.result = "confirmed"
     /\ \A c \in SubmittedCodes :
          Confirm(i, c).response.result = "confirmed" =>
            ConfirmedExactly(i, Confirm(i, c))

\* An order that requires a prescription was confirmed with its prescription
\* verified, another one without.
C8_Witness ==
  /\ last.op = "verify" /\ last.result = "confirmed"
  /\ \E i \in OrderIds :
       /\ orders[i].order_requires_prescription
       /\ orders[i].prescription_status = VERIFIED
       /\ orders[i].status = PROCESSING /\ orders[i].is_otp_verified
  /\ \E i \in OrderIds :
       orders[i].status = AWAITING_PRESCRIPTION /\ orders[i].is_otp_verified

\* C9: the order a successful creation returns is in AWAITING_OTP_VERIFICATION,
\* stores a code of six digits and an expiry five minutes after the issuance,
\* and is not verified.
C9_CreatedAwaitsOtp ==
  last.op = "create" /\ last.result = "created" =>
    /\ last.order \in OrderIds
    /\ orders[last.order].status = AWAITING_OTP_VERIFICATION
    /\ orders[last.order].otp_code /= None
    /\ Len(Val(orders[last.order].otp_code)) = 6
    /\ isdigit(Val(orders[last.order].otp_code))
    /\ orders[last.order].otp_expiry = Some(now + 5)
    /\ orders[last.order].is_otp_verified = FALSE

\* An order was just created whose code starts with zeros.
C9_Witness ==
  /\ last.op = "create" /\ last.result = "created"
  /\ orders[last.order].otp_code = Some(<<0, 0, 7, 1, 2, 3>>)
  /\ now = 1

FailedCleanly(r) ==
  /\ r.response.result \in {"DatabaseError", "ValidationError"}
  /\ r.orders = orders
  /\ r.order_items = order_items

\* C10: when a step of the creation after validation fails (the insert, the
\* items, the OTP issuance), the request ends in an error and the Order and
\* OrderItem tables are as they were before it.
C10_FailedCreateLeavesNothing ==
  \A data \in CreateRequests :
     is_valid(data).errors = {} =>
       \A draw \in RandomDraws, fault \in Faults \ {""} :
          FailedCleanly(OrderViewSet_create(data, draw, fault, orders, order_items, now))

\* The OTP issuance of a second order just failed, the first order is all
\* there is.
C10_Witness ==
  /\ last.op = "create" /\ last.result = "ValidationError"
  /\ Len(orders) = 1 /\ \A k \in 1..Len(order_items) : order_items[k].order = 1

\* The response to the request data, handled now without a database fault.
Placed(data) ==
  OrderViewSet_create(data, <<0, 0, 7, 1, 2, 3>>, "", orders, order_items, now)

Created(r) == r.response.result = "created"

\* The order a successful creation returns.
NewOrder(r) == r.orders[r.response.order]

\* The request is refused as invalid and nothing is persisted.
Refused(r) ==
  /\ r.response.result = "validation_error"
  /\ r.orders = orders
  /\ r.order_items = order_items

\* At least one submitted item resolves to a product that requires a
\* prescription.
HasRx(il) ==
  \E k \in 1..Len(il) :
     \E p \in products : p.sku = il[k].sku /\ p.requires_prescription

\* The same request with a prescription file attached is accepted.
ValidButForUpload(data) ==
  is_valid([data EXCEPT !.prescription_upload = "rx.pdf"]).errors = {}

PrescriptionDemanded(data, r) ==
  HasRx(data.items) =>
    /\ Created(r) => NewOrder(r).order_requires_prescription
    /\ ~Truthy(data.prescription_upload) =>
         /\ Refused(r)
         /\ ValidButForUpload(data) => r.response.errors = {"prescription_upload"}

\* C11 as amended: when at least one resolved product requires a prescription,
\* a created order has order_requires_prescription true, and a request without
\* a prescription file is refused with a validation error and persists nothing;
\* the error is on prescription_upload when the request is otherwise valid.
C11_PrescriptionDemanded ==
  \A data \in CreateRequests : PrescriptionDemanded(data, Placed(data))

PrescriptionErrorAlways(data, r) ==
  HasRx(data.items) /\ ~Truthy(data.prescription_upload) =>
    /\ Refused(r)
    /\ "prescription_upload" \in r.response.errors

\* C11 as stated: every request without a prescription file whose items
\* include a product that requires one fails with a validation error on
\* prescription_upload.
C11_PrescriptionErrorAlways ==
  \A data \in CreateRequests : PrescriptionErrorAlways(data, Placed(data))

\* A request was just refused for its missing prescription, while an order
\* that requires one exists.
C11_Witness ==
  /\ last.op = "create" /\ last.result = "validation_error"
  /\ last.errors = {"prescription_upload"}
  /\ \E i \in OrderIds : orders[i].order_requires_prescription

NoPrescriptionNeeded(data, r) ==
  Created(r) /\ ~HasRx(data.items) =>
    /\ NewOrder(r).order_requires_prescription = FALSE
    /\ NewOrder(r).prescription_status = NOT_REQUIRED

\* C12: an order created from items none of which requires a prescription has
\* order_requires_prescription false and prescription_status NOT_REQUIRED,
\* with or without an uploaded file.
C12_NoPrescriptionNeeded ==
  \A data \in CreateRequests : NoPrescriptionNeeded(data, Placed(data))

\* An order of plain items was just created with a file uploaded.
C12_Witness ==
  /\ last.op = "create" /\ last.result = "created"
  /\ orders[last.order].prescription = "rx.pdf"
  /\ orders[last.order].order_requires_prescription = FALSE
  /\ orders[last.order].prescription_status = NOT_REQUIRED

\* The order is not released to fulfilment while its prescription is wanting.
Gated(order) ==
  order.order_requires_prescription /\ order.prescription_status /= VERIFIED
    => order.status /= PROCESSING

\* C13: the order a create or a confirm leaves behind is not in PROCESSING
\* while it requires a prescription that is not VERIFIED, and in every
\* reachable state AWAITING_PRESCRIPTION is the status of orders that require
\* a prescription only.
C13_PrescriptionGate ==
  /\ last.op \in {"create", "verify"} /\ last.result \in {"created", "confirmed"}
       => Gated(orders[last.order])
  /\ \A i \in OrderIds :
       orders[i].status = AWAITING_PRESCRIPTION => orders[i].order_requires_prescription

\* An order was just confirmed whose prescription waits for verification; an
\* order of plain items is in PROCESSING.
C13_Witness ==
  /\ last.op = "verify" /\ last.result = "confirmed"
  /\ orders[last.order].order_requires_prescription
  /\ orders[last.order].prescription_status = PENDING_VERIFICATION
  /\ orders[last.order].status = AWAITING_PRESCRIPTION
  /\ \E i \in OrderIds :
       ~orders[i].order_requires_prescription /\ orders[i].status = PROCESSING

AddressGiven(data) == data.address_id /= None

\* The four ad-hoc shipping fields are all filled in.
AdHocGiven(data) ==
  /\ data.shipping_name \notin {ABSENT, ""}
  /\ data.shipping_phone_number \notin {ABSENT, ""}
  /\ data.shipping_address_line \notin {ABSENT, ""}
  /\ data.shipping_city \notin {ABSENT, ""}

\* The shipping snapshot of an order, and what an address and a request give.
ShippingOf(order) ==
  [ shipping_name |-> order.shipping_name,
    shipping_phone_number |-> order.shipping_phone_number,
    shipping_address_line |-> order.shipping_address_line,
    shipping_city |-> order.shipping_city,
    shipping_pincode |-> order.shipping_pincode ]

FromAddress(a) ==
  [ shipping_name |-> a.contact_name,
    shipping_phone_number |-> a.contact_phone,
    shipping_address_line |-> a.address_line,
    shipping_city |-> a.city,
    shipping_pincode |-> a.pincode ]

FromRequest(data) ==
  [ shipping_name |-> data.shipping_name,
    shipping_phone_number |-> data.shipping_phone_number,
    shipping_address_line |-> data.shipping_address_line,
    shipping_city |-> data.shipping_city,
    shipping_pincode |-> data.shipping_pincode ]

OneShippingTarget(data, r) ==
  /\ (AddressGiven(data) <=> AdHocGiven(data)) => Refused(r)
  /\ Created(r) /\ AddressGiven(data) =>
       \E a \in Addresses :
          a.id = Val(data.address_id) /\ ShippingOf(NewOrder(r)) = FromAddress(a)
  /\ Created(r) /\ ~AddressGiven(data) =>
       ShippingOf(NewOrder(r)) = FromRequest(data)

\* C14: a request that supplies both a saved address and full ad-hoc shipping
\* fields, or neither, is refused and persists nothing; an accepted order's
\* shipping snapshot is copied from the one target supplied.
C14_OneShippingTarget ==
  \A data \in CreateRequests : OneShippingTarget(data, Placed(data))

\* A request without a usable shipping target was just refused; one order
\* ships to a saved address, another to ad-hoc details.
C14_Witness ==
  /\ last.op = "create" /\ last.result = "validation_error"
  /\ last.errors = {"non_field_errors"}
  /\ \E i \in OrderIds : orders[i].shipping_name = "Ann"
  /\ \E i \in OrderIds : orders[i].shipping_name = "Cy"

OwnAddress(data) ==
  \E a \in Addresses : a.id = Val(data.address_id) /\ a.user = data.user

OwnAddressOnly(data, r) ==
  AddressGiven(data) /\ ~OwnAddress(data) => Refused(r)

\* C15: a request that names a saved address which does not exist or belongs
\* to another user is refused and persists nothing, and no order holds the
\* shipping snapshot of another user's address.
C15_OwnAddressOnly ==
  /\ \A data \in CreateRequests : OwnAddressOnly(data, Placed(data))
  /\ \A i \in OrderIds : \A a \in Addresses :
       ShippingOf(orders[i]) = FromAddress(a) => a.user = orders[i].user

\* A request naming an address that is not the user's was just refused, while
\* the owner of that address has an order shipped to it.
C15_Witness ==
  /\ last.op = "create" /\ last.result = "validation_error"
  /\ last.errors = {"address_id"}
  /\ \E i \in OrderIds : \E a \in Addresses :
       ShippingOf(orders[i]) = FromAddress(a) /\ a.user = orders[i].user

OptionGiven(data) == data.delivery_option_id /= None

\* The active delivery options the request's identifier resolves to.
OptionsResolved(data) ==
  { d \in delivery_options : d.id = Val(data.delivery_option_id) /\ d.is_active }

DeliveryOptionRule(data, r) ==
  /\ OptionGiven(data) /\ OptionsResolved(data) = {} =>
       Refused(r) /\ "delivery_option_id" \in r.response.errors
  /\ Created(r) /\ OptionGiven(data) =>
       \E d \in OptionsResolved(data) :
          NewOrder(r).delivery_charge_snapshot = d.base_charge
  /\ ~OptionGiven(data) =>
       /\ "delivery_option_id" \notin r.response.errors
       /\ Created(r) => NewOrder(r).delivery_charge_snapshot = 0

\* C16: a delivery-option identifier that does not resolve to an existing
\* active option makes the creation fail with a validation error; when it
\* resolves, delivery_charge_snapshot is that option's base charge at the time
\* of creation; without an identifier the creation is not refused for it and
\* delivery_charge_snapshot is zero.
C16_DeliveryOptionRule ==
  \A data \in CreateRequests \cup CatalogRequests :
     DeliveryOptionRule(data, Placed(data))

\* The option has been made inactive and a request naming it was just
\* refused; one order holds the raised charge, another no charge.
C16_Witness ==
  /\ last.op = "create" /\ last.result = "validation_error"
  /\ last.errors = {"delivery_option_id"}
  /\ \E i \in OrderIds : orders[i].delivery_charge_snapshot = 6000
  /\ \E i \in OrderIds : orders[i].delivery_charge_snapshot = 0

\* The item list is empty, or names an unknown or an unavailable product.
BadItems(il) ==
  \/ il = <<>>
  \/ \E k \in 1..Len(il) :
        \A p \in products : p.sku = il[k].sku => ~p.is_available

ItemsChecked(data, r) ==
  BadItems(data.items) => Refused(r) /\ "items" \in r.response.errors

\* C17: a request whose item list is empty or names an unknown or unavailable
\* product fails with a validation error and persists nothing, so every
\* OrderItem row refers to a product that exists and is available.
C17_ItemsChecked ==
  /\ \A data \in CreateRequests : ItemsChecked(data, Placed(data))
  /\ \A k \in 1..Len(order_items) :
       \E p \in products :
          order_items[k].product = Some(p.id) /\ p.is_available
            /\ order_items[k].product_sku_snapshot = p.sku

\* A request was just refused for its items while an order with items exists.
C17_Witness ==
  /\ last.op = "create" /\ last.result = "validation_error"
  /\ last.errors = {"items"}
  /\ Len(order_items) > 0

\* The money columns of an order.
TotalsOf(order) ==
  <<order.sub_total, order.delivery_charge_snapshot, order.order_total>>

\* C18: no step changes the sub_total, delivery_charge_snapshot or order_total
\* of an existing order, whether staff change a price or a delivery charge,
\* deactivate the option or delete the product, or a client places or
\* confirms an order; and order_total = sub_total + delivery_charge_snapshot
\* in every reachable state.
C18_TotalsFrozen ==
  /\ [](\A i \in OrderIds :
          orders[i].order_total =
            orders[i].sub_total + orders[i].delivery_charge_snapshot)
  /\ [][\A i \in OrderIds :
          /\ i \in 1..Len(orders')
          /\ TotalsOf(orders'[i]) = TotalsOf(orders[i])]_vars

\* A confirmed order keeps the price of 100.00 and the charge of 50.00 it was
\* created with, after the price went to 120.00 and the charge to 60.00.
C18_Witness ==
  /\ \E i \in OrderIds :
       /\ orders[i].is_otp_verified
       /\ TotalsOf(orders[i]) = <<20000, 5000, 25000>>
  /\ \E p \in products : p.sku = "A" /\ p.selling_price = 12000
  /\ \E d \in delivery_options : d.id = 1 /\ d.base_charge = 6000

\* The columns of an OrderItem captured at creation.
SnapshotOf(row) ==
  <<row.order, row.price_per_item, row.quantity, row.product_name_snapshot,
    row.product_sku_snapshot>>

\* C19: no step changes the price_per_item, quantity, product_name_snapshot or
\* product_sku_snapshot of an existing OrderItem, whatever happens to the
\* product; the row stays when the product is deleted, its product reference
\* is null exactly when the product is gone, and nothing else of it changes.
C19_ItemSnapshotsFrozen ==
  /\ [](\A k \in 1..Len(order_items) :
          order_items[k].product = None
            <=> ~\E p \in products : p.sku = order_items[k].product_sku_snapshot)
  /\ [][\A k \in 1..Len(order_items) :
          /\ k \in 1..Len(order_items')
          /\ SnapshotOf(order_items'[k]) = SnapshotOf(order_items[k])
          /\ order_items'[k].product \in {order_items[k].product, None}]_vars

\* The product is deleted; one item holds the name and price it was sold
\* under first, another those it was sold under after the edit.
C19_Witness ==
  /\ products = {}
  /\ \E k \in 1..Len(order_items) :
       /\ order_items[k].product = None
       /\ order_items[k].product_name_snapshot = "Aspirin"
       /\ order_items[k].price_per_item = 10000
       /\ order_items[k].product_sku_snapshot = "A"
  /\ \E k \in 1..Len(order_items) :
       /\ order_items[k].product = None
       /\ order_items[k].product_name_snapshot = "Generic"
       /\ order_items[k].price_per_item = 12000

\* The code of order i has expired without a confirmation.
Expired(i) == Awaiting(i) /\ now > Val(orders[i].otp_expiry)

WellFormed(c) == Len(c) = OTP_LENGTH /\ isdigit(c)

\* The confirm request r with code c is refused and writes nothing: as invalid
\* or expired when the code is well-formed, as malformed otherwise.
RefusedAfterExpiry(c, r) ==
  /\ r.orders = orders
  /\ r.response.result = IF WellFormed(c) THEN "invalid_otp" ELSE "validation_error"

\* C20 as amended: once the time has passed an unconfirmed order's otp_expiry,
\* every confirm request of its owner fails and writes nothing (with the
\* invalid-or-expired error for a well-formed code, with a validation error
\* for a malformed one), and every step other than a change by staff leaves
\* the order as it is, expired and in AWAITING_OTP_VERIFICATION.
C20_ExpiredForGood ==
  /\ [](\A i \in OrderIds :
          Expired(i) => \A c \in CodesFor(i) : RefusedAfterExpiry(c, Confirm(i, c)))
  /\ [][\A i \in OrderIds :
          Expired(i) /\ last'.op /= "admin" =>
            /\ i \in 1..Len(orders')
            /\ orders'[i] = orders[i]
            /\ now' >= now]_vars

\* C20 as stated: after the expiry every confirm request fails with the
\* invalid-or-expired error, whatever code is submitted.
C20_InvalidOtpWhateverCode ==
  \A i \in OrderIds :
     Expired(i) =>
       \A c \in CodesFor(i) : Confirm(i, c).response.result = "invalid_otp"

\* The stored code of an order was just refused after its expiry, and a
\* second order has expired as well.
C20_Witness ==
  /\ last.op = "verify" /\ last.result = "invalid_otp"
  /\ Expired(last.order)
  /\ \A i \in OrderIds : Expired(i)
  /\ Len(orders) = 2

\* An order that waits for its code holds a code and an expiry and is not
\* verified.
OtpIssued(order) ==
  order.status = AWAITING_OTP_VERIFICATION =>
    /\ order.otp_code /= None
    /\ order.otp_expiry /= None
    /\ ~order.is_otp_verified

\* A verified order holds neither code nor expiry and has left the two first
\* statuses.
OtpConsumed(order) ==
  order.is_otp_verified =>
    /\ order.otp_code = None
    /\ order.otp_expiry = None
    /\ order.status \notin {PENDING, AWAITING_OTP_VERIFICATION}

\* C21: an order in AWAITING_OTP_VERIFICATION has a code and an expiry and is
\* not verified, and a verified order has neither and is neither PENDING nor
\* AWAITING_OTP_VERIFICATION: no half-written issuance or confirmation shows.
C21_OtpFieldsConsistent ==
  \A i \in OrderIds : OtpIssued(orders[i]) /\ OtpConsumed(orders[i])

\* One order waits for its code while another has been confirmed.
C21_Witness ==
  /\ \E i \in OrderIds : orders[i].status = AWAITING_OTP_VERIFICATION
  /\ \E i \in OrderIds : orders[i].is_otp_verified

\* The step is the handling of a request to a core operation: order creation
\* or code confirmation.
CoreStep == last = Idle /\ last'.op \in {"create", "verify"}

\* What a core step does to the status of the order i that existed before it:
\* nothing, or the move out of AWAITING_OTP_VERIFICATION of the order whose
\* confirmation the step answers.
StatusKeptOrConfirmed(i) ==
  \/ orders'[i].status = orders[i].status
  \/ /\ orders[i].status = AWAITING_OTP_VERIFICATION
     /\ orders'[i].status \in {AWAITING_PRESCRIPTION, PROCESSING}
     /\ last' = Response("verify", "confirmed", {}, i)

\* The order a core step adds is the one the creation answers with; it was
\* built PENDING and is committed in AWAITING_OTP_VERIFICATION.
AddedAwaitingOtp(i) ==
  /\ last' = Response("create", "created", {}, i)
  /\ orders'[i].status = AWAITING_OTP_VERIFICATION

\* The instance create builds for a valid request, before the code is issued.
Built(data, validated) ==
  create_instance(validated, data,
    sum_items(validated.items, Len(validated.items)), 0, validated.address,
    Len(orders) + 1, now)

\* A valid request's order is built PENDING and issuance makes it
\* AWAITING_OTP_VERIFICATION.
BuiltPending(data, validated) ==
  validated.errors = {} =>
    /\ Built(data, validated).status = PENDING
    /\ Truthy(Built(data, validated).shipping_phone_number) =>
         send_order_otp(Built(data, validated), orders, now, <<0, 0, 7, 1, 2, 3>>,
                        FALSE).order.status = AWAITING_OTP_VERIFICATION

\* C22: the core operations move an order from PENDING to
\* AWAITING_OTP_VERIFICATION while it is created and from
\* AWAITING_OTP_VERIFICATION to AWAITING_PRESCRIPTION or PROCESSING by a
\* successful confirmation, and make no other change of status: none
\* backwards, none that skips AWAITING_OTP_VERIFICATION.
C22_CoreTransitions ==
  /\ [](\A data \in CreateRequests : BuiltPending(data, is_valid(data)))
  /\ [][CoreStep =>
         /\ Len(orders') >= Len(orders)
         /\ \A i \in 1..Len(orders) : StatusKeptOrConfirmed(i)
         /\ \A i \in (Len(orders) + 1)..Len(orders') : AddedAwaitingOtp(i)]_vars

\* A confirmation has just moved an order on while a cancelled order and an
\* order waiting for its code exist.
C22_Witness ==
  /\ last.result = "confirmed"
  /\ orders[last.order].status \in {AWAITING_PRESCRIPTION, PROCESSING}
  /\ \E i \in OrderIds : orders[i].status \in {CANCELLED, AWAITING_OTP_VERIFICATION}

\* The orders created on the day of order i, up to and including i.
RankInDay(i) ==
  Cardinality({ j \in OrderIds :
                  j <= i /\ DayOf(orders[j].created_at) = DayOf(orders[i].created_at) })

\* C23: orders created one after the other are numbered in sequence within
\* their day: the first order of a day has sequence 1, each later one the
\* highest sequence of the day plus one, and the next day starts at 1 again.
C23_SequencePerDay ==
  \A i \in OrderIds :
     /\ orders[i].order_number /= None
     /\ ParseInt(Val(orders[i].order_number).tail) = RankInDay(i)

\* The OrderItem rows of order i that refer to the product with SKU sku.
RowsFor(i, sku) ==
  { k \in 1..Len(order_items) :
      order_items[k].order = i /\ order_items[k].product_sku_snapshot = sku }

\* C24: every persisted order has exactly one OrderItem for each distinct
\* product it covers, also when the submitted list named a product more than
\* once.
C24_OneRowPerProduct ==
  \A i \in OrderIds, p \in Products : Cardinality(RowsFor(i, p.sku)) <= 1

\* The prescription status an order has when it is created.
StatusAtCreation(order) ==
  IF order.order_requires_prescription
  THEN order.prescription_status = PENDING_VERIFICATION /\ Truthy(order.prescription)
  ELSE order.prescription_status = NOT_REQUIRED

\* C25: no created order has prescription_status PENDING_UPLOAD: an order is
\* created PENDING_VERIFICATION, with its file attached, when it requires a
\* prescription and NOT_REQUIRED when it does not.
C25_NeverPendingUpload ==
  /\ \A i \in OrderIds : orders[i].prescription_status /= PENDING_UPLOAD
  /\ last.result = "created" => StatusAtCreation(orders[last.order])

\* An order that requires a prescription was just created, next to an order
\* that does not.
C25_Witness ==
  /\ last.result = "created"
  /\ orders[last.order].order_requires_prescription
  /\ orders[last.order].prescription_status = PENDING_VERIFICATION
  /\ \E i \in OrderIds : orders[i].prescription_status = NOT_REQUIRED

\* The confirm request of user u, who does not own order i, is answered as if
\* the order did not exist, and no row changes.
StrangerRefused(u, i, c) ==
  /\ OrderOtpVerifyView_post(u, i, c, orders, now).response.result = "not_found"
  /\ OrderOtpVerifyView_post(u, i, c, orders, now).orders = orders

\* C26: a confirm request by a user who does not own the order never changes
\* it, whatever the code, the stored unexpired code included.
C26_OwnerOnly ==
  \A i \in OrderIds :
     \A u \in Users \ {Owner(i)}, c \in CodesFor(i) : StrangerRefused(u, i, c)

\* A confirm request was just answered not-found while an order of u1 waits
\* for its code, which has not expired and is one of the codes submitted.
C26_Witness ==
  /\ last.op = "verify" /\ last.result = "not_found"
  /\ \E i \in OrderIds :
       /\ Owner(i) = "u1"
       /\ Awaiting(i) /\ now <= Val(orders[i].otp_expiry)
       /\ Val(orders[i].otp_code) \in SubmittedCodes

\* The codes the service can have issued.
IssuedCodes == { generate_otp(draw, OTP_LENGTH) : draw \in RandomDraws }

\* Every further confirm request on order i gets the invalid-state error and
\* changes no row.
Spent(i) ==
  \A c \in SubmittedCodes \cup IssuedCodes :
     /\ Confirm(i, c).response.result = "invalid_state"
     /\ Confirm(i, c).orders = orders

\* A step that answers a confirm request with success.
ConfirmSucceeds == last = Idle /\ last'.op = "verify" /\ last'.result = "confirmed"

\* C27: a code is used once.  A confirm request succeeds only on an order that
\* no confirm request succeeded on before, and once one has succeeded every
\* further confirm request on the order, with the same code too, gets the
\* invalid-state error and changes nothing.
C27_SingleUse ==
  /\ [](\A i \in OrderIds : orders[i].is_otp_verified => Spent(i))
  /\ [][\A i \in OrderIds : orders[i].is_otp_verified => orders'[i].is_otp_verified]_vars
  /\ [][ConfirmSucceeds =>
         /\ ~orders[last'.order].is_otp_verified
         /\ orders'[last'.order].is_otp_verified]_vars

\* A confirm request was just refused on an order confirmed before, whose
\* code would not have expired yet.
C27_Witness ==
  /\ last.op = "verify" /\ last.result = "invalid_state"
  /\ orders[last.order].is_otp_verified
  /\ now < orders[last.order].created_at + OTP_EXPIRY_MINUTES

\* The row a single successful confirmation leaves of the row it read.
SingleConfirm(order) ==
  [order EXCEPT !.is_otp_verified = TRUE,
                !.status = StatusAfterConfirm(order),
                !.otp_code = None,
                !.otp_expiry = None]

\* Workers w and v have both finished a confirm request of the owner on the
\* same order with the same code; w found it correct and unexpired and v was
\* not refused for its code.
RacedConfirms(w, v) ==
  /\ w /= v
  /\ inflight[w].pc = "done" /\ inflight[v].pc = "done"
  /\ inflight[w].order_id = inflight[v].order_id
  /\ inflight[w].user = inflight[v].user
  /\ inflight[w].otp_code = inflight[v].otp_code
  /\ inflight[w].response.result = "confirmed"
  /\ inflight[v].response.result \in {"confirmed", "invalid_state"}

\* C28: however the steps of two concurrent confirm requests with the correct
\* unexpired code interleave, the order ends as a single successful
\* confirmation leaves it.
C28_RaceAsSingleConfirm ==
  \A w, v \in Workers :
     RacedConfirms(w, v) =>
       orders[inflight[w].order_id] = SingleConfirm(inflight[w].order)

\* Both workers read the order before either wrote, and both have answered
\* with success.
C28_Witness ==
  /\ RacedConfirms("w1", "w2")
  /\ inflight["w2"].response.result = "confirmed"
  /\ inflight["w1"].order = inflight["w2"].order

\* The workers that answered 201 to an add-item request for product p on the
\* cart of user u.
Adders(u, p) ==
  { w \in CartWorkers :
      /\ inflight[w].pc = "done"
      /\ inflight[w].response.result = "created"
      /\ inflight[w].data.user = u
      /\ inflight[w].data.product_id = p }

RECURSIVE QuantityAdded(_)
\* The sum of the quantities the workers of S added.
QuantityAdded(S) ==
  IF S = {} THEN 0
  ELSE inflight[CHOOSE w \in S : TRUE].data.quantity
         + QuantityAdded(S \ {CHOOSE w \in S : TRUE})

\* No add-item request is in progress.
CartQuiet == \A w \in CartWorkers : inflight[w].pc \in {"free", "done"}

\* C29: once the add-item requests for a product on a cart are over, whether
\* they ran one after the other or interleaved, the cart has exactly one
\* CartItem for the product, and its quantity is the sum of the quantities
\* added.
C29_OneLineSummed ==
  CartQuiet =>
    \A u \in Users, p \in {1, 3} :
       Adders(u, p) /= {} =>
         /\ Cardinality(CartItem_get(cart_items, u, p)) = 1
         /\ \A row \in CartItem_get(cart_items, u, p) :
              row.quantity = QuantityAdded(Adders(u, p))

\* The default addresses of user u.
DefaultsOf(u) == { row \in addresses : row.user = u /\ row.is_default }

\* No address save is in progress.
AddressQuiet == \A w \in AddressWorkers : inflight[w].pc \in {"free", "done"}

\* The rows of the users other than u.
RowsOfOthers(u) == { row \in addresses : row.user /= u }

\* C30: once the address saves of a user are over, whether they ran one after
\* the other or interleaved, at most one of the user's addresses is the
\* default; a save as default clears the flag on the user's other addresses
\* and leaves the addresses of other users alone.
C30_OneDefault ==
  /\ [](AddressQuiet => \A u \in Users : Cardinality(DefaultsOf(u)) <= 1)
  /\ [][\A w \in AddressWorkers :
          inflight[w].pc = "save" /\ inflight'[w].pc = "write" =>
            RowsOfOthers(inflight[w].self.user)' = RowsOfOthers(inflight[w].self.user)]_vars

====
